---- MODULE Spec2Model ----
(***************************************************************************)
(* The texthooker page (src/main.rs): the ledger of lines, the id counter, *)
(* the undo/redo stacks, the capture observer and the view's edit/remove   *)
(* intents.  A text is a sequence of one-character strings.                *)
(***************************************************************************)
EXTENDS Integers, Sequences, FiniteSets, TLC

\* ------------------------------------------------------------- bounds
\* New mutations are accepted while the undo stack is shorter than MaxHist.
MaxHist == 3
\* add_entry is accepted while the id counter is below MaxId.
MaxId == 2
\* The stored ledgers normalization is tried on hold at most MaxStored lines.
MaxStored == 3
\* The observer's callback is handed at most MaxBatch inserted <p> nodes.
MaxBatch == 2
\* At most MaxFrames callbacks wait for an animation frame at once.
MaxFrames == 2

\* ------------------------------------------------------------- inputs
\* Ids and versions a ledger left in storage by an earlier session may hold.
LoadIds == {0, 2, 5, 7}
LoadVersions == {0, 3}
LoadTexts == {<<>>, <<"a">>}
\* Texts a view or an inserted <p> node may hand over (untrimmed).
RawTexts == {<<>>, <<" ">>, <<"a">>, <<" ", "a">>, <<"b", " ">>}
\* Values of the page's selection as a string.
Selections == {<<>>, <<"a">>}
\* Texts of inserted <p> nodes and selections that differ in line endings.
PageTexts == {<<>>, <<" ">>, <<"a">>, <<"a", "\r", "\n", "b">>, <<" ", "a", "\r", "b">>}
PageSelections ==
    {<<>>, <<"a">>, <<"a", " ">>, <<"a", "\n", "b">>, <<"a", "\r", "\n", "b">>}

\* ------------------------------------------------------------- texts
IsWhite(c) == c \in {" ", "\t", "\n", "\r"}

RECURSIVE TrimStart(_)
TrimStart(s) ==
    IF s # <<>> /\ IsWhite(Head(s)) THEN TrimStart(Tail(s)) ELSE s

RECURSIVE TrimEnd(_)
TrimEnd(s) ==
    IF s # <<>> /\ IsWhite(s[Len(s)]) THEN TrimEnd(SubSeq(s, 1, Len(s) - 1)) ELSE s

\* str::trim
Trim(s) == TrimEnd(TrimStart(s))

\* normalized turning CRLF into LF and leaving a lone CR as it is.
RECURSIVE normalized_crlf_only(_)
normalized_crlf_only(s) ==
    IF s = <<>> THEN <<>>
    ELSE IF Head(s) = "\r" /\ Len(s) >= 2 /\ s[2] = "\n"
         THEN <<"\n">> \o normalized_crlf_only(SubSeq(s, 3, Len(s)))
         ELSE <<Head(s)>> \o normalized_crlf_only(Tail(s))

\* normalize_line_endings::normalized: CRLF and a lone CR both become LF.
RECURSIVE normalized(_)
normalized(s) ==
    IF s = <<>> THEN <<>>
    ELSE IF Head(s) = "\r"
         THEN IF Len(s) >= 2 /\ s[2] = "\n"
              THEN <<"\n">> \o normalized(SubSeq(s, 3, Len(s)))
              ELSE <<"\n">> \o normalized(Tail(s))
         ELSE <<Head(s)>> \o normalized(Tail(s))

\* ------------------------------------------------------------- lines
\* Line::new
Line_new(text) == [version |-> 0, text |-> text]

\* LineMap = BTreeMap<Id, Line>: a function on a finite set of ids.
EmptyMap == [k \in {} |-> Line_new(<<>>)]

\* BTreeMap::insert (an existing key is overwritten)
insert(m, id, line) ==
    [k \in DOMAIN m \cup {id} |-> IF k = id THEN line ELSE m[k]]

\* BTreeMap::remove, for a key that is present
remove(m, id) == [k \in DOMAIN m \ {id} |-> m[k]]

\* The key of the i-th value (from 0) of into_values(): ascending key order.
KeyAt(m, i) ==
    CHOOSE k \in DOMAIN m : Cardinality({j \in DOMAIN m : j < k}) = i

\* normalize_line_map with the version reset left out.
normalize_line_map_keeps_versions(m) ==
    [i \in 0 .. (Cardinality(DOMAIN m) - 1) |-> m[KeyAt(m, i)]]

\* normalize_line_map zipping the values in descending key order.
normalize_line_map_reversed(m) ==
    [i \in 0 .. (Cardinality(DOMAIN m) - 1) |->
        [version |-> 0, text |-> m[KeyAt(m, Cardinality(DOMAIN m) - 1 - i)].text]]

\* normalize_line_map: (0..).zip(values with version 0).collect()
normalize_line_map(m) ==
    [i \in 0 .. (Cardinality(DOMAIN m) - 1) |->
        [version |-> 0, text |-> m[KeyAt(m, i)].text]]

\* What use_local_storage may return for "lines": at most n lines.
LoadedLedgers(n) ==
    UNION { [S -> [version : LoadVersions, text : LoadTexts]] :
            S \in {T \in SUBSET LoadIds : Cardinality(T) <= n} }

\* ------------------------------------------------------------- history
\* An Add entry that keeps the text of the line only.
Add_text_only(id, line) == [tag |-> "Add", id |-> id, line |-> Line_new(line.text)]

\* enum UndoEntry / enum RedoEntry
Add(id, line) == [tag |-> "Add", id |-> id, line |-> line]
Remove(id) == [tag |-> "Remove", id |-> id]
Edit(id, text) == [tag |-> "Edit", id |-> id, text |-> text]
ReplaceAll(m) == [tag |-> "ReplaceAll", lines |-> m]
Clear == [tag |-> "Clear"]

\* UndoStack::new
UndoStack_new == [undos |-> <<>>, redos |-> <<>>]

\* push_and_clear_redos with redos.clear() left out.
push_and_keep_redos(us, entry) ==
    [undos |-> Append(us.undos, entry), redos |-> us.redos]

\* UndoStack::push_and_clear_redos
push_and_clear_redos(us, entry) ==
    [undos |-> Append(us.undos, entry), redos |-> <<>>]

\* The three writes of a line's text, each without its step of the version.
edit_line_keeps_version(line, text) == [version |-> line.version, text |-> text]
undo_edit_keeps_version(line, text) == [version |-> line.version, text |-> text]
redo_edit_keeps_version(line, text) == [version |-> line.version, text |-> text]

\* A line after an accepted edit (set_text): mem::replace, version += 1.
edit_line(line, text) == [version |-> line.version + 1, text |-> text]
\* A line after the undo of an Edit: mem::replace, version -= 1.
undo_edit(line, text) == [version |-> line.version - 1, text |-> text]
\* A line after the redo of an Edit: mem::replace, version += 1.
redo_edit(line, text) == [version |-> line.version + 1, text |-> text]

Top(s) == s[Len(s)]
Pop(s) == SubSeq(s, 1, Len(s) - 1)

\* The outcome of a closure on (lines, undo_stack): the two values it leaves
\* and the panic it ended in, if any: "unwrap" on an absent id, "underflow"
\* of the unsigned version (a build with overflow checks panics there, one
\* without wraps the version around; the page is followed no further in
\* either case).  A panic leaves what was written before it.
Outcome(ls, us, p) == [lines |-> ls, undo_stack |-> us, panic |-> p]

\* add_entry with the increment of the counter left out.
next_id_counter_stuck(c) == c
\* The id counter after add_entry has taken an id.
next_id_counter(c) == c + 1

\* The Add arm of undo with lines.insert left out.
undo_add_nothing(ls, id, line) == ls
\* The ledger after the Add arm of undo: the line is put back under its id.
undo_add(ls, id, line) == insert(ls, id, line)

\* The early return of undo and redo, taken with the redo stack emptied.
nothing_popped_clears_redos(ls, us) == Outcome(ls, [us EXCEPT !.redos = <<>>], "none")
\* The early return of undo and redo: pop() gave None.
nothing_popped(ls, us) == Outcome(ls, us, "none")

\* The Clear arm of redo pushing a ReplaceAll of the ledger already taken.
redo_clear_forgets(ls) == ReplaceAll(EmptyMap)
\* The entry the Clear arm of redo pushes: the ledger taken by mem::take.
redo_clear(ls) == ReplaceAll(ls)

\* The closure `undo`.
undo(ls, us) ==
    IF us.undos = <<>> THEN nothing_popped(ls, us)
    ELSE LET e == Top(us.undos)
             popped == [us EXCEPT !.undos = Pop(us.undos)]
             done(ls2, r) ==
                 Outcome(ls2, [popped EXCEPT !.redos = Append(us.redos, r)], "none")
         IN CASE e.tag = "Add" -> done(undo_add(ls, e.id, e.line), Remove(e.id))
              [] e.tag = "Remove" ->
                    IF e.id \notin DOMAIN ls THEN Outcome(ls, popped, "unwrap")
                    ELSE done(remove(ls, e.id), Add(e.id, ls[e.id]))
              [] e.tag = "Edit" ->
                    IF e.id \notin DOMAIN ls THEN Outcome(ls, popped, "unwrap")
                    ELSE IF ls[e.id].version = 0
                    THEN Outcome([ls EXCEPT ![e.id].text = e.text], popped, "underflow")
                    ELSE done([ls EXCEPT ![e.id] = undo_edit(@, e.text)],
                              Edit(e.id, ls[e.id].text))
              [] e.tag = "ReplaceAll" -> done(e.lines, Clear)

\* The closure `redo`.
redo(ls, us) ==
    IF us.redos = <<>> THEN nothing_popped(ls, us)
    ELSE LET e == Top(us.redos)
             popped == [us EXCEPT !.redos = Pop(us.redos)]
             done(ls2, u) ==
                 Outcome(ls2, [popped EXCEPT !.undos = Append(us.undos, u)], "none")
         IN CASE e.tag = "Add" -> done(insert(ls, e.id, e.line), Remove(e.id))
              [] e.tag = "Remove" ->
                    IF e.id \notin DOMAIN ls THEN Outcome(ls, popped, "unwrap")
                    ELSE done(remove(ls, e.id), Add(e.id, ls[e.id]))
              [] e.tag = "Edit" ->
                    IF e.id \notin DOMAIN ls THEN Outcome(ls, popped, "unwrap")
                    ELSE done([ls EXCEPT ![e.id] = redo_edit(@, e.text)],
                              Edit(e.id, ls[e.id].text))
              [] e.tag = "Clear" -> done(EmptyMap, redo_clear(ls))

\* clear without the is_empty return.
clear_always(ls, us) ==
    Outcome(EmptyMap, push_and_clear_redos(us, ReplaceAll(ls)), "none")

\* The closure `clear`.
clear(ls, us) ==
    IF DOMAIN ls = {} THEN Outcome(ls, us, "none")
    ELSE Outcome(EmptyMap, push_and_clear_redos(us, ReplaceAll(ls)), "none")

\* set_text comparing the text as handed over, before trim.
set_text_untrimmed(ls, us, id, raw) ==
    IF ls[id].text = raw
    THEN [out |-> Outcome(ls, us, "none"), ret |-> FALSE]
    ELSE [out |-> Outcome([ls EXCEPT ![id] = edit_line(@, Trim(raw))],
                          push_and_clear_redos(us, Edit(id, ls[id].text)),
                          "none"),
          ret |-> TRUE]

\* set_text turning down a text that is empty after trim.
set_text_rejects_empty(ls, us, id, raw) ==
    IF ls[id].text = Trim(raw) \/ Trim(raw) = <<>>
    THEN [out |-> Outcome(ls, us, "none"), ret |-> FALSE]
    ELSE [out |-> Outcome([ls EXCEPT ![id] = edit_line(@, Trim(raw))],
                          push_and_clear_redos(us, Edit(id, ls[id].text)),
                          "none"),
          ret |-> TRUE]

\* The closure `set_text` of the line `id`, and the value it returns.
set_text(ls, us, id, raw) ==
    LET new_text == Trim(raw)
    IN IF id \notin DOMAIN ls
       THEN [out |-> Outcome(ls, us, "unwrap"), ret |-> FALSE]
       ELSE IF ls[id].text = new_text
       THEN [out |-> Outcome(ls, us, "none"), ret |-> FALSE]
       ELSE [out |-> Outcome([ls EXCEPT ![id] = edit_line(@, new_text)],
                             push_and_clear_redos(us, Edit(id, ls[id].text)),
                             "none"),
             ret |-> TRUE]

\* remove taking the line out without pushing its entry.
remove_line_unrecorded(ls, us, id) ==
    IF id \notin DOMAIN ls THEN Outcome(ls, us, "unwrap")
    ELSE Outcome(remove(ls, id), us, "none")

\* The closure `remove` of the line `id`.
remove_line(ls, us, id) ==
    IF id \notin DOMAIN ls THEN Outcome(ls, us, "unwrap")
    ELSE Outcome(remove(ls, id), push_and_clear_redos(us, Add(id, ls[id])), "none")

\* The closure `add_entry`, from the id the counter holds (scrolling left out).
add_entry(ls, us, next_id, text) ==
    Outcome(insert(ls, next_id, Line_new(text)),
            push_and_clear_redos(us, Remove(next_id)), "none")

\* The observer's decision for one inserted <p> node: does it reach add_entry?
is_page_text(sel, text) == normalized(sel) = normalized(text)
Captured(sel, raw) == Trim(raw) # <<>> /\ ~is_page_text(sel, Trim(raw))

\* A session: the ledger, the two stacks and the id counter.
Session(o, c) == [lines |-> o.lines, undo_stack |-> o.undo_stack, id_counter |-> c]

\* The body of the observer's for_each without the is_empty return.
on_node_keeps_blank(st, sel, raw) ==
    IF is_page_text(sel, Trim(raw)) THEN st
    ELSE Session(add_entry(st.lines, st.undo_stack, st.id_counter, Trim(raw)),
                 next_id_counter(st.id_counter))

\* The body of the observer's for_each, for one inserted <p> node.
on_node(st, sel, raw) ==
    LET text == Trim(raw)
    IN IF text = <<>> THEN st
       ELSE IF is_page_text(sel, text) THEN st
       ELSE Session(add_entry(st.lines, st.undo_stack, st.id_counter, text),
                    next_id_counter(st.id_counter))

\* The callback going through the nodes from the last to the first.
RECURSIVE callback_backwards(_, _, _)
callback_backwards(st, sel, nodes) ==
    IF nodes = <<>> THEN st
    ELSE callback_backwards(on_node(st, sel, nodes[Len(nodes)]), sel,
                            SubSeq(nodes, 1, Len(nodes) - 1))

\* The observer's callback on the <p> nodes of a batch, in the order of the
\* records and of their added nodes.
RECURSIVE callback(_, _, _)
callback(st, sel, nodes) ==
    IF nodes = <<>> THEN st
    ELSE callback(on_node(st, sel, Head(nodes)), sel, Tail(nodes))

\* ------------------------------------------------------------- views
\* The page as the handlers of the views see it: the ledger and its stacks,
\* the signal any_focused, the ids of the line views whose signal `focused`
\* is true, the id of the line whose contenteditable element has the DOM
\* focus (NoLine: none has), the callbacks given to request_animation_frame
\* that have not run, those of the frame being run (todo), and the panic a
\* handler ended in.
NoLine == -1

\* A callback given to request_animation_frame by a line view: `focus` itself
\* ("focus", scheduled where needs_focus was taken) or the closure in `focus`
\* that unwraps line_el ("target").  live: the view it belongs to is still
\* mounted; el: line_el was filled by a render of the editable element.
Callback(kind, id, live, el) == [cb |-> kind, id |-> id, live |-> live, el |-> el]

\* What the build does where the source reaches through a view that has been
\* disposed or a node that has been unmounted: a write to a disposed signal is
\* dropped or panics, a read of a disposed NodeRef gives its last value or
\* panics, the NodeRef of an unmounted element keeps the element or is None.
Builds == [set : {"ignored", "panic"}, get : {"stale", "panic"}, ref : {"kept", "cleared"}]

\* <For key=(id, version)>: the line views a change of the ledger disposes.
Gone(ls, ls2) ==
    {id \in DOMAIN ls : id \notin DOMAIN ls2 \/ ls2[id].version # ls[id].version}

Unmount(q, gone) ==
    [i \in 1 .. Len(q) |-> IF q[i].id \in gone THEN [q[i] EXCEPT !.live = FALSE] ELSE q[i]]

\* The page once <For> has followed the ledger to (ls2, us2).
render(p, ls2, us2) ==
    LET gone == Gone(p.lines, ls2)
    IN [p EXCEPT !.lines = ls2,
                 !.undo_stack = us2,
                 !.focused = @ \ gone,
                 !.frames = Unmount(@, gone),
                 !.todo = Unmount(@, gone),
                 !.active = IF @ \in gone THEN NoLine ELSE @]

\* LineView::focus, of a mounted view.
focus(p, id) ==
    [p EXCEPT !.focused = @ \cup {id},
              !.any_focused = TRUE,
              !.frames = Append(@, Callback("target", id, TRUE, TRUE))]

\* LineView::focus, of a view that has been disposed: set_focused is a write
\* to a disposed signal; set_any_focused belongs to App and is written.
focus_disposed(p, id, b) ==
    IF b.set = "panic" THEN [p EXCEPT !.panic = "disposed"]
    ELSE [p EXCEPT !.any_focused = TRUE,
                   !.frames = Append(@, Callback("target", id, FALSE, FALSE))]

\* LineView::unfocus, of a mounted view, the element holding `text`.
unfocus(p, id, text) ==
    LET r == set_text(p.lines, p.undo_stack, id, text)
        q == [p EXCEPT !.focused = @ \ {id}, !.any_focused = FALSE]
    IN IF r.out.panic # "none" THEN [q EXCEPT !.panic = r.out.panic]
       ELSE render(q, r.out.lines, r.out.undo_stack)

\* LineView::unfocus, of a view that has been disposed.
unfocus_disposed(p, id, b, text) ==
    IF b.set = "panic" \/ b.get = "panic" THEN [p EXCEPT !.panic = "disposed"]
    ELSE IF b.ref = "cleared" THEN [p EXCEPT !.any_focused = FALSE, !.panic = "unwrap"]
    ELSE LET r == set_text(p.lines, p.undo_stack, id, text)
             q == [p EXCEPT !.any_focused = FALSE]
         IN IF r.out.panic # "none" THEN [q EXCEPT !.panic = r.out.panic]
            ELSE render(q, r.out.lines, r.out.undo_stack)

\* The closure in `focus`: line_el.get_untracked().unwrap(), target.focus().
\* The focus leaving another line's element fires its focusout (unfocus).
target_focus(p, cb, b, typed) ==
    IF cb.live /\ cb.id \in p.focused
    THEN IF p.active \in {NoLine, cb.id} THEN [p EXCEPT !.active = cb.id]
         ELSE [unfocus(p, p.active, typed) EXCEPT !.active = cb.id]
    ELSE IF cb.live
    THEN IF b.ref = "kept" THEN p ELSE [p EXCEPT !.panic = "unwrap"]
    ELSE IF b.get = "panic" THEN [p EXCEPT !.panic = "disposed"]
    ELSE IF cb.el /\ b.ref = "kept" THEN p
    ELSE [p EXCEPT !.panic = "unwrap"]

\* One callback of an animation frame.
run_callback(p, cb, b, typed) ==
    IF cb.cb = "focus"
    THEN IF cb.live THEN focus(p, cb.id) ELSE focus_disposed(p, cb.id, b)
    ELSE target_focus(p, cb, b, typed)

\* An animation frame: the callbacks scheduled before it run in the order
\* they were scheduled in; those they schedule wait for the next frame.  The
\* element that had the focus when the frame began holds `text`, any other
\* the text of its line.
RECURSIVE run_todo(_, _, _, _)
run_todo(p, b, was_active, text) ==
    IF p.todo = <<>> \/ p.panic # "none" THEN p
    ELSE LET typed == IF p.active = was_active \/ p.active \notin DOMAIN p.lines
                      THEN text ELSE p.lines[p.active].text
         IN run_todo(run_callback([p EXCEPT !.todo = Tail(@)], Head(p.todo), b, typed),
                     b, was_active, text)

animation_frame(p, b, text) ==
    run_todo([p EXCEPT !.todo = p.frames, !.frames = <<>>], b, p.active, text)

\* The page after a closure left `out`: <For> follows the ledger; where that
\* takes the element with the focus out of the document, the browser fires
\* its focusout (fires) or does not.
settled(p, out) ==
    IF out.panic # "none"
    THEN [p EXCEPT !.lines = out.lines, !.undo_stack = out.undo_stack, !.panic = out.panic]
    ELSE render(p, out.lines, out.undo_stack)

rendered(p, out, b, fires, text) ==
    LET q == settled(p, out)
    IN IF q.panic # "none" \/ p.active = NoLine \/ q.active # NoLine \/ ~fires THEN q
       ELSE unfocus_disposed(q, p.active, b, text)

\* The keydown listeners: Ctrl+Z and Ctrl+Y, turned down while any_focused.
keydown_undo(ls, us, any) == IF any THEN Outcome(ls, us, "none") ELSE undo(ls, us)
keydown_redo(ls, us, any) == IF any THEN Outcome(ls, us, "none") ELSE redo(ls, us)

\* ------------------------------------------------------------- state
VARIABLES
    phase,          \* "boot": App() has read storage; "run": the page is up
    lines,          \* the signal `lines`
    undo_stack,     \* the signal `undo_stack`
    id_counter,     \* the StoredValue `id_counter`
    selected_text,  \* the signal of use_selected_text
    panic,          \* "none", or the panic the last closure ended in
    trail,          \* history: the ledger before each entry of undos was pushed
    future,         \* history: the ledger before each entry of redos was pushed
    net_edits,      \* history: per id, edits accepted + redone - undone
    any_focused,    \* the signal `any_focused`
    focused,        \* the ids of the line views whose signal `focused` is true
    active,         \* the line whose editable element has the DOM focus, or NoLine
    frames          \* the callbacks waiting for an animation frame, oldest first

view == <<any_focused, focused, active, frames>>

vars == <<phase, lines, undo_stack, id_counter, selected_text, panic,
          trail, future, net_edits, any_focused, focused, active, frames>>

\* The ids whose line is in the ledger or kept in an entry that can restore it.
Range(s) == {s[i] : i \in 1 .. Len(s)}
Kept(s) ==
    {e.id : e \in {x \in Range(s) : x.tag = "Add"}}
    \cup UNION {DOMAIN e.lines : e \in {x \in Range(s) : x.tag = "ReplaceAll"}}
LiveIds(ls, us) == DOMAIN ls \cup Kept(us.undos) \cup Kept(us.redos)

\* The history variables after a step from (ls, us) to (ls2, us2), read off
\* the step.  trail: the ledger before each entry of undos was pushed.
trail_after(t, ls, us, ls2, us2) ==
    LET u == us.undos
        u2 == us2.undos
        \* the ledger before the j-th entry of this step was pushed (a step
        \* pushes several only in a capture, each the Remove of a new line)
        before_push(j) ==
            IF j = 1 THEN ls
            ELSE [k \in {x \in DOMAIN ls2 : x < u2[Len(u) + j].id} |-> ls2[k]]
    IN IF Len(u2) > Len(u)
       THEN t \o [j \in 1 .. (Len(u2) - Len(u)) |-> before_push(j)]
       ELSE SubSeq(t, 1, Len(u2))

\* future: the ledger before each entry of redos was pushed.
future_after(f, ls, us, us2) ==
    IF Len(us2.redos) > Len(us.redos) THEN Append(f, ls)
    ELSE SubSeq(f, 1, Len(us2.redos))

\* net_edits, after closure `op` ended in p2.
net_edits_after(n, us, ls2, us2, p2, op) ==
    LET u == us.undos
        u2 == us2.undos
        r == us.redos
        edited == IF p2 # "none" THEN {}
                  ELSE IF op = "set_text" /\ Len(u2) > Len(u) THEN {<<Top(u2).id, 1>>}
                  ELSE IF op = "undo" /\ u # <<>> /\ Top(u).tag = "Edit"
                       THEN {<<Top(u).id, -1>>}
                  ELSE IF op = "redo" /\ r # <<>> /\ Top(r).tag = "Edit"
                       THEN {<<Top(r).id, 1>>}
                  ELSE {}
        before(id) == IF id \in DOMAIN n THEN n[id] ELSE 0
        delta(id) == IF <<id, 1>> \in edited THEN 1
                     ELSE IF <<id, -1>> \in edited THEN -1 ELSE 0
    IN [id \in LiveIds(ls2, us2) |-> before(id) + delta(id)]

\* The history variables over the step the program takes.
Observe(op) ==
    /\ trail' = trail_after(trail, lines, undo_stack, lines', undo_stack')
    /\ future' = future_after(future, lines, undo_stack, undo_stack')
    /\ net_edits' = net_edits_after(net_edits, undo_stack, lines', undo_stack', panic', op)

\* The same for a step of two closures, the first leaving `mid`.
ObserveVia(op1, mid, op2) ==
    /\ trail' = trail_after(trail_after(trail, lines, undo_stack, mid.lines, mid.undo_stack),
                            mid.lines, mid.undo_stack, lines', undo_stack')
    /\ future' = future_after(future_after(future, lines, undo_stack, mid.undo_stack),
                              mid.lines, mid.undo_stack, undo_stack')
    /\ net_edits' = net_edits_after(
                        net_edits_after(net_edits, undo_stack, mid.lines, mid.undo_stack,
                                        mid.panic, op1),
                        mid.undo_stack, lines', undo_stack', panic', op2)

Apply(out) ==
    /\ lines' = out.lines
    /\ undo_stack' = out.undo_stack
    /\ panic' = out.panic

Running == phase = "run" /\ panic = "none"
Room == Len(undo_stack.undos) < MaxHist

Boot(stored) ==
    /\ phase = "boot"
    /\ lines \in stored
    /\ undo_stack = UndoStack_new
    /\ id_counter = 0
    /\ selected_text = <<>>
    /\ panic = "none"
    /\ trail = <<>>
    /\ future = <<>>
    /\ net_edits = EmptyMap
    /\ any_focused = FALSE
    /\ focused = {}
    /\ active = NoLine
    /\ frames = <<>>

\* A session starts from an empty stored ledger or from one of a single line;
\* further lines come from add_entry.  Spec follows the ledger and its
\* history with the views at rest between its steps: the edit session of a
\* line (edit click or the focus a new line is given, animation frames,
\* typing, focusout) is the one step SetText, and the session of a line just
\* added that ends with no text typed leaves no trace.  SpecView follows the
\* views step by step.
Init == Boot(LoadedLedgers(1))

\* App(): normalize the stored ledger, make the undo stack and the id counter.
App ==
    /\ phase = "boot"
    /\ phase' = "run"
    /\ lines' = normalize_line_map(lines)
    /\ undo_stack' = UndoStack_new
    /\ id_counter' = Cardinality(DOMAIN lines')
    /\ UNCHANGED <<selected_text, panic>>
    /\ UNCHANGED view
    /\ Observe("App")

\* The selectionchange listener.
SelectionChange(sel) ==
    /\ Running
    /\ selected_text' = sel
    /\ UNCHANGED <<phase, lines, undo_stack, id_counter, panic>>
    /\ UNCHANGED view
    /\ Observe("selectionchange")

\* The mutation observer's callback, for the inserted <p> nodes of a batch.
ObserverCallback(nodes) ==
    /\ Running
    /\ LET st == callback([lines |-> lines, undo_stack |-> undo_stack,
                           id_counter |-> id_counter], selected_text, nodes)
       IN /\ Len(st.undo_stack.undos) <= MaxHist
          /\ st.id_counter <= MaxId
          /\ lines' = st.lines
          /\ undo_stack' = st.undo_stack
          /\ id_counter' = st.id_counter
    /\ UNCHANGED <<phase, selected_text, panic>>
    /\ UNCHANGED view
    /\ Observe("capture")

\* add_focused_entry: the click on the "add line" button.
AddFocusedEntry ==
    /\ Running
    /\ Room /\ id_counter < MaxId
    /\ id_counter' = next_id_counter(id_counter)
    /\ Apply(add_entry(lines, undo_stack, id_counter, <<>>))
    /\ UNCHANGED <<phase, selected_text>>
    /\ UNCHANGED view
    /\ Observe("add_focused_entry")

\* The click on the clear button.
ClearAll ==
    /\ Running
    /\ DOMAIN lines # {} => Room
    /\ Apply(clear(lines, undo_stack))
    /\ UNCHANGED <<phase, id_counter, selected_text>>
    /\ UNCHANGED view
    /\ Observe("clear")

\* A line view's unfocus handing its text to set_text.
SetText(id, raw) ==
    /\ Running
    /\ id \in DOMAIN lines
    /\ set_text(lines, undo_stack, id, raw).ret => Room
    /\ Apply(set_text(lines, undo_stack, id, raw).out)
    /\ UNCHANGED <<phase, id_counter, selected_text>>
    /\ UNCHANGED view
    /\ Observe("set_text")

\* The click on a line's remove button.
RemoveLine(id) ==
    /\ Running
    /\ id \in DOMAIN lines
    /\ Room
    /\ Apply(remove_line(lines, undo_stack, id))
    /\ UNCHANGED <<phase, id_counter, selected_text>>
    /\ UNCHANGED view
    /\ Observe("remove")

\* The undo button or Ctrl+Z.
Undo ==
    /\ Running
    /\ Apply(undo(lines, undo_stack))
    /\ UNCHANGED <<phase, id_counter, selected_text>>
    /\ UNCHANGED view
    /\ Observe("undo")

\* The redo button or Ctrl+Y.
Redo ==
    /\ Running
    /\ Apply(redo(lines, undo_stack))
    /\ UNCHANGED <<phase, id_counter, selected_text>>
    /\ UNCHANGED view
    /\ Observe("redo")

Next ==
    \/ App
    \/ \E sel \in Selections : SelectionChange(sel)
    \/ \E raw \in RawTexts : ObserverCallback(<<raw>>)
    \/ AddFocusedEntry
    \/ ClearAll
    \/ \E id \in DOMAIN lines, raw \in RawTexts : SetText(id, raw)
    \/ \E id \in DOMAIN lines : RemoveLine(id)
    \/ Undo
    \/ Redo

Spec == Init /\ [][Next]_vars

\* Startup alone, over the larger stored ledgers.
InitStored == Boot(LoadedLedgers(MaxStored))
SpecStartup == InitStored /\ [][App]_vars

\* ------------------------------------------------------------- view steps
Page ==
    [lines |-> lines, undo_stack |-> undo_stack, any_focused |-> any_focused,
     focused |-> focused, active |-> active, frames |-> frames,
     todo |-> <<>>, panic |-> panic]

Show(p) ==
    /\ lines' = p.lines
    /\ undo_stack' = p.undo_stack
    /\ panic' = p.panic
    /\ any_focused' = p.any_focused
    /\ focused' = p.focused
    /\ active' = p.active
    /\ frames' = p.frames

\* A click outside the element that has the focus is preceded by its focusout:
\* the buttons are clicked with the focus on no line.
\* The click on the "add line" button: add_focused_entry, then the render in
\* which the new line's view takes needs_focus and schedules `focus`.
ClickAdd ==
    /\ Running /\ active = NoLine
    /\ Room /\ id_counter < MaxId /\ Len(frames) < MaxFrames
    /\ id_counter' = next_id_counter(id_counter)
    /\ LET p == settled(Page, add_entry(lines, undo_stack, id_counter, <<>>))
       IN Show([p EXCEPT !.frames = Append(@, Callback("focus", id_counter, TRUE, FALSE))])
    /\ UNCHANGED <<phase, selected_text>>
    /\ Observe("add_focused_entry")

\* The click on a line's edit button (shown while the view is not focused).
ClickEdit(id) ==
    /\ Running /\ active = NoLine
    /\ id \in DOMAIN lines \ focused
    /\ Len(frames) < MaxFrames
    /\ Show(focus(Page, id))
    /\ UNCHANGED <<phase, id_counter, selected_text>>
    /\ Observe("focus")

\* The click on a line's remove button (shown while the view is not focused).
ClickRemove(id) ==
    /\ Running /\ active = NoLine
    /\ id \in DOMAIN lines \ focused
    /\ Room
    /\ Show(settled(Page, remove_line(lines, undo_stack, id)))
    /\ UNCHANGED <<phase, id_counter, selected_text>>
    /\ Observe("remove")

ClickClear ==
    /\ Running /\ active = NoLine
    /\ DOMAIN lines # {} => Room
    /\ Show(settled(Page, clear(lines, undo_stack)))
    /\ UNCHANGED <<phase, id_counter, selected_text>>
    /\ Observe("clear")

ClickUndo ==
    /\ Running /\ active = NoLine
    /\ Show(settled(Page, undo(lines, undo_stack)))
    /\ UNCHANGED <<phase, id_counter, selected_text>>
    /\ Observe("undo")

ClickRedo ==
    /\ Running /\ active = NoLine
    /\ Show(settled(Page, redo(lines, undo_stack)))
    /\ UNCHANGED <<phase, id_counter, selected_text>>
    /\ Observe("redo")

\* The choices a step is open to: all of S where they matter, one otherwise.
Among(S, matter) == IF matter THEN S ELSE {CHOOSE x \in S : TRUE}

\* The closure's outcome takes the element that has the focus out of the
\* document.
TakesActive(out) ==
    /\ active # NoLine
    /\ out.panic = "none"
    /\ active \in Gone(lines, out.lines)

\* Ctrl+Z and Ctrl+Y, wherever the focus is.
KeyUndo ==
    /\ Running
    /\ LET out == keydown_undo(lines, undo_stack, any_focused)
       IN \E b \in Among(Builds, TakesActive(out)),
             fires \in Among(BOOLEAN, TakesActive(out)),
             text \in Among(RawTexts, TakesActive(out)) :
          LET p == rendered(Page, out, b, fires, text)
          IN /\ Len(p.undo_stack.undos) <= MaxHist
             /\ Show(p)
             /\ ObserveVia(IF any_focused THEN "keydown" ELSE "undo", out, "set_text")
    /\ UNCHANGED <<phase, id_counter, selected_text>>

KeyRedo ==
    /\ Running
    /\ LET out == keydown_redo(lines, undo_stack, any_focused)
       IN \E b \in Among(Builds, TakesActive(out)),
             fires \in Among(BOOLEAN, TakesActive(out)),
             text \in Among(RawTexts, TakesActive(out)) :
          LET p == rendered(Page, out, b, fires, text)
          IN /\ Len(p.undo_stack.undos) <= MaxHist
             /\ Show(p)
             /\ ObserveVia(IF any_focused THEN "keydown" ELSE "redo", out, "set_text")
    /\ UNCHANGED <<phase, id_counter, selected_text>>

\* focusout of the element that has the focus (a click elsewhere, Escape,
\* Tab), the element holding `text`.
FocusOut(text) ==
    /\ Running /\ active # NoLine
    /\ LET p == [unfocus(Page, active, text) EXCEPT !.active = NoLine]
       IN /\ Len(p.undo_stack.undos) <= MaxHist
          /\ Show(p)
    /\ UNCHANGED <<phase, id_counter, selected_text>>
    /\ Observe("set_text")

\* An animation frame.
Frame ==
    /\ Running /\ frames # <<>>
    /\ \E b \in Among(Builds, \E i \in 1 .. Len(frames) :
                                  ~frames[i].live \/ frames[i].id \notin focused),
          text \in Among(RawTexts, active # NoLine) :
          LET p == animation_frame(Page, b, text)
          IN /\ Len(p.undo_stack.undos) <= MaxHist
             /\ Show(p)
    /\ UNCHANGED <<phase, id_counter, selected_text>>
    /\ Observe("set_text")

NextView ==
    \/ App
    \/ \E raw \in RawTexts : ObserverCallback(<<raw>>)
    \/ ClickAdd
    \/ \E id \in DOMAIN lines : ClickEdit(id)
    \/ \E id \in DOMAIN lines : ClickRemove(id)
    \/ ClickClear
    \/ ClickUndo
    \/ ClickRedo
    \/ KeyUndo
    \/ KeyRedo
    \/ \E text \in RawTexts : FocusOut(text)
    \/ Frame

SpecView == Init /\ [][NextView]_vars

\* The batches of inserted <p> nodes the observer's callback is handed.
Batches ==
    UNION {[1 .. n -> PageTexts] : n \in 1 .. MaxBatch}

\* The capture path: selections and batches of inserted nodes whose texts
\* differ in line endings, with undo and redo of what was captured.
NextCapture ==
    \/ App
    \/ \E sel \in PageSelections : SelectionChange(sel)
    \/ \E nodes \in Batches : ObserverCallback(nodes)
    \/ Undo
    \/ Redo

SpecCapture == Init /\ [][NextCapture]_vars

\* ------------------------------------------------------------- helpers
\* undo() / redo() called k times in a row; a panic ends the run.
RECURSIVE UndoN(_, _, _)
UndoN(k, ls, us) ==
    IF k = 0 THEN Outcome(ls, us, "none")
    ELSE LET o == undo(ls, us)
         IN IF o.panic # "none" THEN o ELSE UndoN(k - 1, o.lines, o.undo_stack)

RECURSIVE RedoN(_, _, _)
RedoN(k, ls, us) ==
    IF k = 0 THEN Outcome(ls, us, "none")
    ELSE LET o == redo(ls, us)
         IN IF o.panic # "none" THEN o ELSE RedoN(k - 1, o.lines, o.undo_stack)

\* The intents the page offers on a ledger: the add button, an inserted <p>
\* node that is captured, the clear button, and edit and remove on each line
\* shown.
Intents(ls) ==
    {[op |-> "add"], [op |-> "clear"]}
    \cup {[op |-> "capture", raw |-> r] : r \in {x \in RawTexts : Captured(selected_text, x)}}
    \cup {[op |-> "set_text", id |-> i, raw |-> r] : i \in DOMAIN ls, r \in RawTexts}
    \cup {[op |-> "remove", id |-> i] : i \in DOMAIN ls}

\* One intent run on a session [lines, undo_stack, id_counter].
Do(st, i) ==
    CASE i.op = "add" ->
            Session(add_entry(st.lines, st.undo_stack, st.id_counter, <<>>),
                    next_id_counter(st.id_counter))
      [] i.op = "capture" ->
            Session(add_entry(st.lines, st.undo_stack, st.id_counter, Trim(i.raw)),
                    next_id_counter(st.id_counter))
      [] i.op = "clear" -> Session(clear(st.lines, st.undo_stack), st.id_counter)
      [] i.op = "set_text" ->
            Session(set_text(st.lines, st.undo_stack, i.id, i.raw).out, st.id_counter)
      [] i.op = "remove" ->
            Session(remove_line(st.lines, st.undo_stack, i.id), st.id_counter)

\* The sessions n intents lead to, whatever the intents.
RECURSIVE AfterIntents(_, _)
AfterIntents(n, st) ==
    IF n = 0 THEN {st}
    ELSE UNION {AfterIntents(n - 1, Do(st, i)) : i \in Intents(st.lines)}

Here == [lines |-> lines, undo_stack |-> undo_stack, id_counter |-> id_counter]
Undos == undo_stack.undos
Redos == undo_stack.redos
Tags(s) == {s[i].tag : i \in 1 .. Len(s)}

\* The ids an entry names.
IdsOf(e) ==
    IF e.tag = "ReplaceAll" THEN DOMAIN e.lines
    ELSE IF e.tag = "Clear" THEN {}
    ELSE {e.id}

\* The longest run of intents the two round-trip claims are tried on as stated.
MaxSeq == 2

\* ------------------------------------------------------------- C1
\* C1 as stated: from every reachable state, after any n intents (add,
\* capture, edit, remove, clear-all), n calls of undo() leave the ledger of
\* that state.
C1_AnyIntentsUndone ==
    Running =>
        \A n \in 1 .. MaxSeq : \A t \in AfterIntents(n, Here) :
            UndoN(n, t.lines, t.undo_stack).lines = lines

\* C1, amended: the n operations are those that committed, each having pushed
\* one entry onto undos.  For every k up to the length of undos, k calls of
\* undo() run without a panic and leave the ledger (ids, texts, versions) as
\* it was before the k-th last entry was pushed.
C1_UndoRestores ==
    phase = "run" =>
        \A k \in 1 .. Len(Undos) :
            LET o == UndoN(k, lines, undo_stack)
            IN o.panic = "none" /\ o.lines = trail[Len(Undos) - k + 1]

\* Three operations of three kinds were committed and then undone by three
\* undo() calls, which brought back the ledger of before.
C1_Witness ==
    /\ phase = "run" /\ Undos = <<>> /\ Len(Redos) = 3
    /\ Tags(Redos) = {"Add", "Clear", "Edit"}
    /\ \A id \in DOMAIN lines : lines[id].version = 0
    /\ future[1] # lines

\* ------------------------------------------------------------- C2
\* C2 as stated: after any n intents and n calls of undo(), n calls of redo()
\* leave the ledger as it was right after the n intents.
C2_AnyIntentsRedone ==
    Running =>
        \A n \in 1 .. MaxSeq : \A t \in AfterIntents(n, Here) :
            LET u == UndoN(n, t.lines, t.undo_stack)
            IN RedoN(n, u.lines, u.undo_stack).lines = t.lines

\* C2, amended: the n operations are those that committed.  For every k up to
\* the length of redos, k calls of redo() run without a panic and leave the
\* ledger as it was before the k-th last undo(); after n committed operations
\* and n undo() calls that is the ledger right after the operations.
C2_RedoRestores ==
    phase = "run" =>
        \A k \in 1 .. Len(Redos) :
            LET o == RedoN(k, lines, undo_stack)
            IN o.panic = "none" /\ o.lines = future[Len(Redos) - k + 1]

\* Three undo() calls in a row, one of them of a removal, from a ledger that
\* three redo() calls bring back.
C2_Witness ==
    /\ phase = "run" /\ Len(Redos) = 3 /\ "Remove" \in Tags(Redos)
    /\ RedoN(3, lines, undo_stack).lines = future[1]
    /\ future[1] # lines /\ future[2] # future[1]

\* ------------------------------------------------------------- C3
\* A step that commits a new mutation: an add, a capture, an accepted edit,
\* a remove or a clear-all that pushed its entry.
Mutation ==
    /\ undo_stack' # undo_stack
    /\ \/ AddFocusedEntry
       \/ \E raw \in RawTexts : ObserverCallback(<<raw>>)
       \/ ClearAll
       \/ \E id \in DOMAIN lines, raw \in RawTexts : SetText(id, raw)
       \/ \E id \in DOMAIN lines : RemoveLine(id)

\* C3: right after every committed mutation the redo stack is empty and
\* redo() changes neither the ledger nor a stack; and an empty redo stack
\* stays empty through every step that is not an undo().
C3_LinearHistory ==
    [][ /\ \/ /\ undo_stack'.redos = <<>>
              /\ redo(lines', undo_stack') = Outcome(lines', undo_stack', "none")
           \/ ~Mutation
        /\ \/ undo_stack'.redos = <<>>
           \/ Redos # <<>>
           \/ Undo
      ]_vars

\* A mutation was committed while the redo stack held an entry: an id below
\* the counter is gone from the ledger and from both stacks.
C3_Witness ==
    /\ phase = "run" /\ Undos # <<>> /\ Redos = <<>>
    /\ \E id \in 0 .. (id_counter - 1) :
          /\ id \notin LiveIds(lines, undo_stack)
          /\ \A i \in 1 .. Len(Undos) : id \notin IdsOf(Undos[i])

\* ------------------------------------------------------------- C4
\* C4: editing a line to a text that, trimmed, is its current text returns
\* false and leaves the line (text, version), undos and redos as they were.
C4_SameTextIsNoOp ==
    Running =>
        \A id \in DOMAIN lines, raw \in RawTexts :
            Trim(raw) = lines[id].text =>
                LET r == set_text(lines, undo_stack, id, raw)
                IN /\ r.ret = FALSE
                   /\ r.out = Outcome(lines, undo_stack, "none")

\* An edited line, a non-empty redo stack, and an untrimmed text that trims
\* to the line's text.
C4_Witness ==
    /\ Running /\ Undos # <<>> /\ Redos # <<>>
    /\ \E id \in DOMAIN lines, raw \in RawTexts :
          /\ lines[id].version >= 1
          /\ raw # Trim(raw)
          /\ Trim(raw) = lines[id].text

\* ------------------------------------------------------------- C5
\* C5 as stated: an edit whose text is empty after trimming returns false and
\* leaves the line, undos and redos as they were.
C5_EmptyEditRejected ==
    Running =>
        \A id \in DOMAIN lines, raw \in RawTexts :
            Trim(raw) = <<>> =>
                LET r == set_text(lines, undo_stack, id, raw)
                IN /\ r.ret = FALSE
                   /\ r.out = Outcome(lines, undo_stack, "none")

\* C5, amended: an edit whose text is empty after trimming is rejected only
\* on a line whose text is already empty; on any other line it is accepted:
\* it returns true, the text becomes empty, the version grows by one,
\* Edit(id, old text) is pushed onto undos and redos is emptied.
C5_EmptyEdit ==
    Running =>
        \A id \in DOMAIN lines, raw \in RawTexts :
            Trim(raw) = <<>> =>
                LET r == set_text(lines, undo_stack, id, raw)
                IN IF lines[id].text = <<>>
                   THEN /\ r.ret = FALSE
                        /\ r.out = Outcome(lines, undo_stack, "none")
                   ELSE /\ r.ret = TRUE
                        /\ r.out.panic = "none"
                        /\ r.out.lines =
                              [lines EXCEPT ![id] =
                                  [version |-> lines[id].version + 1, text |-> <<>>]]
                        /\ r.out.undo_stack =
                              [undos |-> Append(Undos, Edit(id, lines[id].text)),
                               redos |-> <<>>]

\* A line was edited to the empty text: the edit is on top of undos.
C5_Witness ==
    /\ Running /\ Undos # <<>>
    /\ Top(Undos).tag = "Edit"
    /\ Top(Undos).text # <<>>
    /\ Top(Undos).id \in DOMAIN lines
    /\ lines[Top(Undos).id].text = <<>>
    /\ lines[Top(Undos).id].version >= 1

\* ------------------------------------------------------------- C6
\* C6: every line's version is non-negative and is the number of edits of
\* the line accepted or redone minus those undone (net_edits, which moves by
\* one with each of them); an Edit entry on top of undos names a line of
\* version at least 1, and no undo() has underflowed a version.
C6_VersionIsNetEdits ==
    phase = "run" =>
        /\ panic # "underflow"
        /\ \A id \in DOMAIN lines :
              /\ lines[id].version >= 0
              /\ lines[id].version = net_edits[id]
        /\ (panic = "none" /\ Undos # <<>> /\ Top(Undos).tag = "Edit") =>
              /\ Top(Undos).id \in DOMAIN lines
              /\ lines[Top(Undos).id].version >= 1

\* A line edited twice with one edit undone: version 1, an Edit on each stack.
C6_Witness ==
    /\ Running /\ Undos # <<>> /\ Redos # <<>>
    /\ Top(Undos).tag = "Edit" /\ Top(Redos).tag = "Edit"
    /\ Top(Undos).id = Top(Redos).id
    /\ Top(Undos).id \in DOMAIN lines
    /\ lines[Top(Undos).id].version = 1

\* ------------------------------------------------------------- C7
\* The ids named by the entries of a stack.
StackIds(s) == UNION {IdsOf(s[i]) : i \in 1 .. Len(s)}

\* C7 as stated: every id in an entry of undos or redos is the id of a line
\* of the ledger, or of a line that one undo() from here puts back.
C7_OneUndoAway ==
    Running =>
        \A id \in StackIds(Undos) \cup StackIds(Redos) :
            \/ id \in DOMAIN lines
            \/ id \in DOMAIN undo(lines, undo_stack).lines

\* C7, amended: every id in an entry of undos (of redos) is the id of a line
\* of the ledger, or of a line that is back in the ledger after at most d
\* calls of undo() (of redo()), d being the depth of the entry from the top
\* of its stack: not always after one, and for an entry of redos by redo().
C7_BackByItsEntry ==
    Running =>
        /\ \A i \in 1 .. Len(Undos) : \A id \in IdsOf(Undos[i]) :
              \/ id \in DOMAIN lines
              \/ \E k \in 1 .. (Len(Undos) - i + 1) :
                    id \in DOMAIN UndoN(k, lines, undo_stack).lines
        /\ \A i \in 1 .. Len(Redos) : \A id \in IdsOf(Redos[i]) :
              \/ id \in DOMAIN lines
              \/ \E k \in 1 .. (Len(Redos) - i + 1) :
                    id \in DOMAIN RedoN(k, lines, undo_stack).lines

\* Two lines were removed one after the other: the first removed is not
\* back after one undo() and is back after two.
C7_Witness ==
    /\ Running /\ Len(Undos) >= 2
    /\ Undos[Len(Undos) - 1].tag = "Add"
    /\ Undos[Len(Undos) - 1].id \notin DOMAIN lines
    /\ Undos[Len(Undos) - 1].id \notin DOMAIN undo(lines, undo_stack).lines
    /\ Undos[Len(Undos) - 1].id \in DOMAIN UndoN(2, lines, undo_stack).lines

\* ------------------------------------------------------------- C8
\* A step in which add_entry ran (it pushed a Remove onto undos): the add
\* button, or a captured <p> node.
AddStep ==
    /\ Len(undo_stack'.undos) = Len(Undos) + 1
    /\ Top(undo_stack'.undos).tag = "Remove"
    /\ \/ AddFocusedEntry
       \/ \E raw \in RawTexts : Captured(selected_text, raw) /\ ObserverCallback(<<raw>>)

\* The ids of the ledger, of the entries and of the ReplaceAll snapshots.
KnownIds == DOMAIN lines \cup StackIds(Undos) \cup StackIds(Redos)

\* C8: the id counter starts at the number of lines of the normalized ledger,
\* grows by exactly 1 with every committed capture or add, whose new id is
\* the id of no line in the ledger or kept in an entry, and is changed by no
\* other step; after every step it is above every id in the ledger, in an
\* entry and in a ReplaceAll snapshot.
C8_IdCounter ==
    [][ /\ phase = "boot" => id_counter' = Cardinality(DOMAIN lines')
        /\ \A id \in KnownIds' : id < id_counter'
        /\ phase = "run" =>
              IF AddStep
              THEN /\ id_counter' = id_counter + 1
                   /\ id_counter \notin KnownIds
                   /\ DOMAIN lines' = DOMAIN lines \cup {id_counter}
              ELSE id_counter' = id_counter
      ]_vars

\* The removal of an added line was undone: the line is back under its id,
\* its Remove waits on redos, and the counter has not moved back.
C8_Witness ==
    /\ Running /\ id_counter = MaxId /\ Redos # <<>>
    /\ Top(Redos).tag = "Remove"
    /\ Top(Redos).id \in DOMAIN lines
    /\ \E i \in 1 .. Len(Undos) : Undos[i] = Remove(Top(Redos).id)

\* ------------------------------------------------------------- C9
\* new is old re-keyed: ids 0..n-1 given in ascending order of the old ids,
\* texts kept, versions 0.
ReKeyed(old, new) ==
    LET n == Cardinality(DOMAIN old)
    IN /\ DOMAIN new = 0 .. (n - 1)
       /\ \E f \in [DOMAIN old -> 0 .. (n - 1)] :
             /\ \A j, k \in DOMAIN old : j < k => f[j] < f[k]
             /\ \A k \in DOMAIN old : new[f[k]] = [version |-> 0, text |-> old[k].text]

\* C9: startup turns the stored ledger of n lines into the ledger of ids
\* 0..n-1 whose i-th line has the text of the i-th stored line in ascending
\* id order and version 0.
C9_Normalize == [][App => ReKeyed(lines, lines')]_vars

\* A stored ledger of three lines was normalized, its first and last texts
\* different.
C9_Witness ==
    /\ phase = "run"
    /\ DOMAIN lines = 0 .. 2
    /\ lines[0].text # lines[2].text

\* ------------------------------------------------------------- C10
\* C10: normalizing a normalized ledger changes nothing, for the stored
\* ledgers and for the ledgers startup leaves.
C10_NormalizeIdempotent ==
    normalize_line_map(normalize_line_map(lines)) = normalize_line_map(lines)

\* A stored ledger of three lines that normalization changes: gaps in the
\* ids, versions above 0, texts that differ.
C10_Witness ==
    /\ phase = "boot"
    /\ Cardinality(DOMAIN lines) = 3
    /\ 0 \notin DOMAIN lines
    /\ \E j, k \in DOMAIN lines :
          j < k /\ lines[j].text # lines[k].text /\ lines[j].version > 0
    /\ normalize_line_map(lines) # lines

\* ------------------------------------------------------------- C11
\* The line ending a text starts with, as a number of characters: 2 for
\* CRLF, 1 for a lone CR or LF, 0 for none.
EolLen(s) ==
    IF s = <<>> THEN 0
    ELSE IF Head(s) = "\r" THEN (IF Len(s) >= 2 /\ s[2] = "\n" THEN 2 ELSE 1)
    ELSE IF Head(s) = "\n" THEN 1
    ELSE 0

\* Two texts are the same up to line endings: the same characters in the
\* same order, a CRLF, a CR or an LF of one facing any of the three in the
\* other.
RECURSIVE SameUpToLineEndings(_, _)
SameUpToLineEndings(s, t) ==
    IF s = <<>> \/ t = <<>> THEN s = t
    ELSE IF EolLen(s) > 0 \/ EolLen(t) > 0
    THEN /\ EolLen(s) > 0
         /\ EolLen(t) > 0
         /\ SameUpToLineEndings(SubSeq(s, EolLen(s) + 1, Len(s)),
                                SubSeq(t, EolLen(t) + 1, Len(t)))
    ELSE /\ Head(s) = Head(t)
         /\ SameUpToLineEndings(Tail(s), Tail(t))

\* C11: for an inserted block whose trimmed text is not empty, the observer
\* adds no line, pushes no entry and leaves the counter when the trimmed text
\* is the tracked selection up to line endings; in every other case it
\* commits exactly one line: the trimmed text at version 0 under the
\* counter's id, Remove(id) on undos, redos emptied, the counter one up.
C11_SelectionEcho ==
    Running =>
        \A raw \in PageTexts :
            Trim(raw) # <<>> =>
                LET t == on_node(Here, selected_text, raw)
                IN IF SameUpToLineEndings(selected_text, Trim(raw))
                   THEN t = Here
                   ELSE /\ t.lines = insert(lines, id_counter, [version |-> 0, text |-> Trim(raw)])
                        /\ id_counter \notin DOMAIN lines
                        /\ t.undo_stack = [undos |-> Append(Undos, Remove(id_counter)),
                                           redos |-> <<>>]
                        /\ t.id_counter = id_counter + 1

\* A block with a CRLF was captured under another selection, and the tracked
\* selection is now that text with an LF: the same block, and the one with a
\* lone CR, would be turned down as echoes.
C11_Witness ==
    /\ Running
    /\ selected_text = <<"a", "\n", "b">>
    /\ \E id \in DOMAIN lines : lines[id].text = <<"a", "\r", "\n", "b">>
    /\ \E raw \in PageTexts :
          /\ Trim(raw) # selected_text
          /\ "\n" \notin Range(raw)
          /\ on_node(Here, selected_text, raw) = Here
          /\ Trim(raw) # <<>>

\* ------------------------------------------------------------- C12
\* A batch without its blocks that are empty or whitespace only.
NotBlank(raw) == Trim(raw) # <<>>

\* C12: an inserted block whose text is empty or whitespace only leaves the
\* ledger, the id counter and both stacks as they were, alone or anywhere in
\* a batch: the callback does to the session what it does for the batch
\* without such blocks.
C12_BlankCapture ==
    Running =>
        /\ \A raw \in PageTexts :
              ~NotBlank(raw) => on_node(Here, selected_text, raw) = Here
        /\ \A nodes \in Batches :
              callback(Here, selected_text, nodes)
                  = callback(Here, selected_text, SelectSeq(nodes, NotBlank))

\* A ledger with a line, an entry on each stack, and a selection that is not
\* empty: a blank block is neither an echo nor captured here.
C12_Witness ==
    /\ Running /\ DOMAIN lines # {} /\ Undos # <<>> /\ Redos # <<>>
    /\ selected_text # <<>>
    /\ \E raw \in PageTexts : raw # <<>> /\ ~NotBlank(raw)

\* ------------------------------------------------------------- C13
\* C13: undo() on an empty undo stack and redo() on an empty redo stack end
\* without a panic and leave the ledger, undos and redos as they were.
C13_EmptyStackNoOp ==
    Running =>
        /\ Undos = <<>> => undo(lines, undo_stack) = Outcome(lines, undo_stack, "none")
        /\ Redos = <<>> => redo(lines, undo_stack) = Outcome(lines, undo_stack, "none")

\* Everything was undone: undos is empty, redos and the ledger are not, and
\* redo() would change the ledger where undo() changes nothing.
C13_Witness ==
    /\ Running /\ Undos = <<>> /\ Len(Redos) >= 2 /\ DOMAIN lines # {}
    /\ redo(lines, undo_stack).lines # lines

\* ------------------------------------------------------------- C14
\* C14: where undos is not empty, undo() and then redo() end without a panic
\* and leave the ledger, undos and redos exactly as they were; where redos is
\* not empty, so do redo() and then undo().
C14_Mirrors ==
    Running =>
        /\ Undos # <<>> =>
              LET u == undo(lines, undo_stack)
              IN /\ u.panic = "none"
                 /\ redo(u.lines, u.undo_stack) = Outcome(lines, undo_stack, "none")
        /\ Redos # <<>> =>
              LET r == redo(lines, undo_stack)
              IN /\ r.panic = "none"
                 /\ undo(r.lines, r.undo_stack) = Outcome(lines, undo_stack, "none")

\* A clear-all is on top of undos over a ledger it emptied, and the redo
\* stack holds the Add of a line whose capture or add was undone after it.
C14_Witness ==
    /\ Running /\ Undos # <<>> /\ Redos # <<>>
    /\ Top(Undos).tag = "ReplaceAll"
    /\ DOMAIN Top(Undos).lines # {}
    /\ Top(Redos).tag = "Add"
    /\ undo(lines, undo_stack).lines # lines

\* ------------------------------------------------------------- C15
\* The entry on top of a stack names a line of the ledger, if it is a Remove
\* or an Edit.
TopIsThere(s) ==
    (s # <<>> /\ Top(s).tag \in {"Remove", "Edit"}) => Top(s).id \in DOMAIN lines

\* C15: no closure has ended in a panic, and whenever the entry undo() or
\* redo() would pop is a Remove(id) or an Edit(id, _), the id is in the
\* ledger, so the next undo() and the next redo() end without one too.
C15_NoAbsentId ==
    phase = "run" =>
        /\ panic = "none"
        /\ TopIsThere(Undos)
        /\ TopIsThere(Redos)
        /\ undo(lines, undo_stack).panic = "none"
        /\ redo(lines, undo_stack).panic = "none"

\* A line was edited and then removed and the removal undone: an Edit is on
\* top of undos, a Remove on top of redos, both naming the line.
C15_Witness ==
    /\ Running /\ Undos # <<>> /\ Redos # <<>>
    /\ Top(Undos).tag = "Edit"
    /\ Top(Redos).tag = "Remove"
    /\ Top(Redos).id = Top(Undos).id
    /\ \E id \in 0 .. (id_counter - 1) : id \notin DOMAIN lines

\* ------------------------------------------------------------- C17
\* The waiting callbacks that are the `focus` of a line added by the add
\* button and since taken out of the ledger, its view disposed.
Outlived ==
    {i \in 1 .. Len(frames) :
        /\ frames[i].cb = "focus"
        /\ ~frames[i].live
        /\ frames[i].id \notin DOMAIN lines}

\* C17 as stated, under the build kindest to it: a waiting `focus` callback
\* whose line has been removed runs without a panic and leaves the ledger,
\* the stacks, any_focused and the views' focused flags as they were.
C17_OutlivedFocusIsNoOp ==
    Running =>
        \A i \in Outlived :
            \E b \in Builds :
                LET p == run_callback(Page, frames[i], b, <<>>)
                IN /\ p.panic = "none"
                   /\ p.lines = lines
                   /\ p.undo_stack = undo_stack
                   /\ p.any_focused = any_focused
                   /\ p.focused = focused

\* ------------------------------------------------------------- C18
\* C18 as stated: while any_focused is set, Ctrl+Z and Ctrl+Y leave the
\* ledger and both stacks as they are, and some line of the ledger is in edit
\* focus (the `focused` signal of its view is true).
C18_KeysOffOnlyWhileEditing ==
    (Running /\ any_focused) =>
        /\ keydown_undo(lines, undo_stack, any_focused) = Outcome(lines, undo_stack, "none")
        /\ keydown_redo(lines, undo_stack, any_focused) = Outcome(lines, undo_stack, "none")
        /\ \E id \in DOMAIN lines : id \in focused

\* ------------------------------------------------------------- C19
\* C19: on an empty ledger clear() pushes nothing and leaves the ledger,
\* undos and redos as they were, and a redo() does after it what it did
\* before it.
C19_ClearOnEmpty ==
    (Running /\ DOMAIN lines = {}) =>
        LET c == clear(lines, undo_stack)
        IN /\ c = Outcome(lines, undo_stack, "none")
           /\ redo(c.lines, c.undo_stack) = redo(lines, undo_stack)

\* An empty ledger with an entry on each stack: a redo() is available.
C19_Witness ==
    /\ Running /\ DOMAIN lines = {} /\ Undos # <<>> /\ Redos # <<>>
    /\ redo(lines, undo_stack).lines # lines

\* ------------------------------------------------------------- C20
\* The entry on top of s, if an Add(id, line): the id is not in the ledger,
\* the line is the one the id had in ledger `was`, and `out`, the ledger the
\* pop leaves, is the ledger with that one line more.
RestoresOne(s, was, out) ==
    (s # <<>> /\ Top(s).tag = "Add") =>
        /\ Top(s).id \notin DOMAIN lines
        /\ Top(s).id \in DOMAIN was
        /\ Top(s).line = was[Top(s).id]
        /\ Cardinality(DOMAIN out) = Cardinality(DOMAIN lines) + 1
        /\ out = [k \in DOMAIN lines \cup {Top(s).id} |->
                     IF k \in DOMAIN lines THEN lines[k] ELSE was[k]]

\* C20: whenever the entry undo() or redo() would pop is an Add(id, line),
\* the id is not in the ledger, the pop leaves the ledger with exactly one
\* line more and every other line as it was, and the line put back has the
\* text and the version it had in the ledger it was taken from (the ledger
\* before the removal for undos, before the undo() for redos).
C20_RestoreAddsOne ==
    Running =>
        /\ RestoresOne(Undos, IF Undos = <<>> THEN EmptyMap ELSE trail[Len(Undos)],
                       undo(lines, undo_stack).lines)
        /\ RestoresOne(Redos, IF Redos = <<>> THEN EmptyMap ELSE future[Len(Redos)],
                       redo(lines, undo_stack).lines)

\* An edited line was removed and a later line's add was undone: an Add is
\* on top of each stack, the one on undos holding a line of version 1.
C20_Witness ==
    /\ Running /\ Undos # <<>> /\ Redos # <<>>
    /\ Top(Undos).tag = "Add" /\ Top(Undos).line.version >= 1
    /\ Top(Redos).tag = "Add"
    /\ Top(Redos).id # Top(Undos).id

\* ------------------------------------------------------------- C16
\* The blocks of a batch that qualify: not blank, not an echo of the selection.
Qualifies(raw) == Captured(selected_text, raw)

\* C16: a batch with k qualifying blocks leaves k new lines under the k ids
\* from the counter on, in the order of the blocks, each with its trimmed
\* text at version 0, the lines of before untouched, and k entries Remove(id)
\* on undos in that order; j calls of undo() then take off the last j
\* captured lines and nothing else.
C16_BatchOfCaptures ==
    Running =>
        \A nodes \in Batches :
            LET q == SelectSeq(nodes, Qualifies)
                k == Len(q)
                t == callback(Here, selected_text, nodes)
            IN /\ t.id_counter = id_counter + k
               /\ DOMAIN t.lines = DOMAIN lines \cup (id_counter .. (id_counter + k - 1))
               /\ Cardinality(DOMAIN t.lines) = Cardinality(DOMAIN lines) + k
               /\ \A id \in DOMAIN lines : t.lines[id] = lines[id]
               /\ \A i \in 1 .. k :
                     t.lines[id_counter + i - 1] = [version |-> 0, text |-> Trim(q[i])]
               /\ t.undo_stack.undos
                     = Undos \o [i \in 1 .. k |-> Remove(id_counter + i - 1)]
               /\ \A j \in 1 .. k :
                     LET o == UndoN(j, t.lines, t.undo_stack)
                     IN /\ o.panic = "none"
                        /\ o.lines = [id \in DOMAIN t.lines
                                          \ ((id_counter + k - j) .. (id_counter + k - 1))
                                      |-> t.lines[id]]

\* Two blocks of different texts were captured one after the other: their
\* lines have consecutive ids, their Removes are the two top entries of undos
\* in that order, and one undo() takes off the second only.
C16_Witness ==
    /\ Running /\ Len(Undos) >= 2
    /\ Top(Undos) = Remove(id_counter - 1)
    /\ Undos[Len(Undos) - 1] = Remove(id_counter - 2)
    /\ {id_counter - 2, id_counter - 1} \subseteq DOMAIN lines
    /\ lines[id_counter - 2].text = <<"a">>
    /\ lines[id_counter - 1].text = <<"a", "\r", "b">>
    /\ DOMAIN undo(lines, undo_stack).lines = DOMAIN lines \ {id_counter - 1}

====
